---- MODULE Spec2Model ----
(***************************************************************************)
(* Dayflow HRMS: the authorization core.                                   *)
(*   - Route Guard            gcet/middleware.ts                           *)
(*   - Request Authenticator  lib/rbac  (authenticateRequest)              *)
(*   - Permission Evaluator   lib/rbac  (ROLE_PERMISSIONS, hasPermission)  *)
(*   - Attendance handlers    gcet/app/api/attendance/route.ts             *)
(* The guard, the authenticator and the handlers are async functions: a    *)
(* request is a sequence of steps, one per turn between two awaits, and     *)
(* the steps of other requests, a cookie change or a clock tick can fall    *)
(* between two of them.                                                     *)
(* Strings are JavaScript strings; startsWith is computed on characters.   *)
(***************************************************************************)
EXTENDS Naturals, Sequences, FiniteSets, Bags, TLC

VARIABLES
    cookie,   \* the auth-token cookie a request arriving now carries; getAuthCookie() reads it
    users,    \* the users table: id -> stored role, or NoUser when no row has that id
    now,      \* the clock against which a token's expiry is judged
    calls,    \* the requests in flight: each one's position and the values it holds
    last,     \* the observation of the request that the step just taken answered
    pinned,   \* one earlier successful authenticateRequest call, kept for comparison
    attendance \* the attendance table: the rows in insertion order, a row's id its position

vars == <<cookie, users, now, calls, last, pinned, attendance>>

-----------------------------------------------------------------------------
(* Bounds of the model *)

MaxTime == 2
MaxExp == 2

UserIds == {"u1", "u2"}
TokenRoles == {"admin", "hr", "employee", "intern"}
StoredRoles == {"admin", "hr", "employee", "intern"}
NoUser == "<no row>"

Pathnames ==
    { "/", "/auth/login", "/auth/login/reset", "/auth/register", "/auth/logout",
      "/api/auth/login", "/api/auth/register", "/api/auth/logout", "/api/auth/me",
      "/employees", "/employees/7", "/reports", "/settings",
      "/api/employees", "/api/reports", "/api/users", "/api/attendance",
      "/dashboard", "/attendance", "/documents", "/leave", "/payroll",
      "/app/home", "/app", "/profile" }

-----------------------------------------------------------------------------
(* The session token and lib/auth (Token Codec), which the guard and the    *)
(* authenticator import.  A cookie value is one of:                         *)
(*   absent     no auth-token cookie (getAuthCookie yields undefined)        *)
(*   empty      the cookie is present with the empty string as value         *)
(*   malformed  a string that is no token                                    *)
(*   tampered   a well-formed token whose signature does not verify          *)
(*   signed     a well-formed token signed with the server's secret          *)

Token(kind, userId, role, exp) ==
    [kind |-> kind, userId |-> userId, role |-> role, exp |-> exp]

AbsentCookie == Token("absent", "", "", 0)
EmptyCookie == Token("empty", "", "", 0)
MalformedToken == Token("malformed", "", "", 0)

WellFormedTokens ==
    { Token(k, u, r, e) : k \in {"signed", "tampered"}, u \in UserIds,
                          r \in TokenRoles, e \in 1..MaxExp }

CookieValues == {AbsentCookie, EmptyCookie, MalformedToken} \cup WellFormedTokens

Null == [isNull |-> TRUE]

Payload(userId, role) == [isNull |-> FALSE, userId |-> userId, role |-> role]

getAuthCookie(jar) == jar

\* JavaScript truthiness of the value getAuthCookie returned: undefined and '' are falsy.
Truthy(token) == token.kind \notin {"absent", "empty"}

verifyToken(token, clock) ==
    IF token.kind = "signed" /\ clock < token.exp
    THEN Payload(token.userId, token.role)
    ELSE Null

-----------------------------------------------------------------------------
(* gcet/middleware.ts *)

startsWith(s, prefix) ==
    /\ Len(s) >= Len(prefix)
    /\ SubSeq(s, 1, Len(prefix)) = prefix

publicRoutes ==
    << "/auth/login", "/auth/register", "/api/auth/login", "/api/auth/register",
       "/api/auth/logout" >>

\* Object.keys(roleBasedRoutes): the keys in declaration order.
roleBasedRouteKeys ==
    << "/employees", "/reports", "/settings", "/api/employees", "/api/reports",
       "/api/users" >>

roleBasedRoutes_SettingsOpenToHR(route) ==
    CASE route = "/employees" -> {"hr", "admin"}
      [] route = "/reports" -> {"hr", "admin"}
      [] route = "/settings" -> {"hr", "admin"}
      [] route = "/api/employees" -> {"hr", "admin"}
      [] route = "/api/reports" -> {"hr", "admin"}
      [] route = "/api/users" -> {"hr", "admin"}

roleBasedRoutes(route) ==
    CASE route = "/employees" -> {"hr", "admin"}
      [] route = "/reports" -> {"hr", "admin"}
      [] route = "/settings" -> {"admin"}
      [] route = "/api/employees" -> {"hr", "admin"}
      [] route = "/api/reports" -> {"hr", "admin"}
      [] route = "/api/users" -> {"hr", "admin"}

isPublicRoute_ExactMatch(pathname) ==
    \E i \in 1..Len(publicRoutes) : pathname = publicRoutes[i]

\* publicRoutes.some(route => pathname.startsWith(route))
isPublicRoute(pathname) ==
    \E i \in 1..Len(publicRoutes) : startsWith(pathname, publicRoutes[i])

isLoginGated_NoPayroll(pathname) ==
    \/ startsWith(pathname, "/app/") \/ startsWith(pathname, "/api/")
    \/ pathname = "/" \/ startsWith(pathname, "/dashboard")
    \/ startsWith(pathname, "/attendance") \/ startsWith(pathname, "/documents")
    \/ startsWith(pathname, "/leave")

\* The condition under which a request without a token is sent to the login page.
isLoginGated(pathname) ==
    \/ startsWith(pathname, "/app/") \/ startsWith(pathname, "/api/")
    \/ pathname = "/" \/ startsWith(pathname, "/dashboard")
    \/ startsWith(pathname, "/attendance") \/ startsWith(pathname, "/documents")
    \/ startsWith(pathname, "/leave") \/ startsWith(pathname, "/payroll")

NoRoute == "<undefined>"

\* Object.keys(roleBasedRoutes).find(route => pathname.startsWith(route))
findProtectedRoute(pathname) ==
    LET hits == { i \in 1..Len(roleBasedRouteKeys) :
                    startsWith(pathname, roleBasedRouteKeys[i]) }
    IN IF hits = {} THEN NoRoute
       ELSE roleBasedRouteKeys[CHOOSE i \in hits : \A j \in hits : i <= j]

\* A response of the guard, with the steps the run went through:
\*   cookieRead    getAuthCookie was called
\*   verifyCalled  verifyToken was called
\*   roleChecked   the lookup in roleBasedRoutes was made
Response(outcome, location, setCookie, cookieRead, verifyCalled, roleChecked) ==
    [outcome |-> outcome, location |-> location, setCookie |-> setCookie,
     cookieRead |-> cookieRead, verifyCalled |-> verifyCalled,
     roleChecked |-> roleChecked]

\* response.cookies.set('auth-token', '', {httpOnly, secure, sameSite, maxAge: 0, path: '/'})
\* (secure follows NODE_ENV and is left out).
clearedAuthCookie ==
    [name |-> "auth-token", value |-> "", httpOnly |-> TRUE, sameSite |-> "lax",
     maxAge |-> 0, path |-> "/"]

invalidTokenResponse_KeepsCookie ==
    Response("redirect", "/auth/login", <<>>, TRUE, TRUE, FALSE)

invalidTokenResponse ==
    Response("redirect", "/auth/login", <<clearedAuthCookie>>, TRUE, TRUE, FALSE)

\* middleware.ts:35-83: what runs once `await getAuthCookie()` has yielded the token.
middlewareResume(pathname, token, clock) ==
    IF ~Truthy(token)
    THEN IF isLoginGated(pathname)
         THEN Response("redirect", "/auth/login", <<>>, TRUE, FALSE, FALSE)
         ELSE Response("next", "", <<>>, TRUE, FALSE, FALSE)
    ELSE
      LET payload == verifyToken(token, clock) IN
      IF payload = Null
      THEN invalidTokenResponse
      ELSE
        LET protectedRoute == findProtectedRoute(pathname) IN
        IF /\ protectedRoute # NoRoute
           /\ payload.role \notin roleBasedRoutes(protectedRoute)
        THEN Response("redirect", "/dashboard?error=insufficient_permissions",
                      <<>>, TRUE, TRUE, TRUE)
        ELSE Response("next", "", <<>>, TRUE, TRUE, TRUE)

\* One run of middleware with nothing falling between its two turns.
middleware(pathname, jar, clock) ==
    IF isPublicRoute(pathname)
    THEN Response("next", "", <<>>, FALSE, FALSE, FALSE)
    ELSE middlewareResume(pathname, getAuthCookie(jar), clock)

-----------------------------------------------------------------------------
(* lib/rbac: the Request Authenticator *)

\* The calls of authenticateRequest that can raise.  A step of a request is taken
\* under one of these conditions: the named call raises if the step makes it.
Faults == {"none", "getAuthCookie", "verifyToken", "db"}

AuthenticatedUser(id, role) == [id |-> id, role |-> role]

selectUserById_TokenRole(table, payload) ==
    IF table[payload.userId] = NoUser
    THEN <<>>
    ELSE <<AuthenticatedUser(payload.userId, payload.role)>>

\* db.select({id, email, role, firstName, lastName}).from(users)
\*   .where(eq(users.id, payload.userId)).limit(1)
\* email, firstName and lastName are columns of the same row and are left out.
selectUserById(table, payload) ==
    IF table[payload.userId] = NoUser
    THEN <<>>
    ELSE <<AuthenticatedUser(payload.userId, table[payload.userId])>>

Returned(value) == [threw |-> FALSE, value |-> value]
Thrown == [threw |-> TRUE]

\* What a turn of an async function ends with: its result, or the value it holds
\* while it waits at the next await.
Done(out) == [done |-> TRUE, out |-> out]
Await(held) == [done |-> FALSE, held |-> held]

\* part_000:75, up to the await: the call of getAuthCookie, which reads the cookie.
\* The value is what its promise settles with: the token, or Thrown when it rejects;
\* authenticateRequest gets it when it resumes.
authenticateStart(jar, fault) ==
    IF fault = "getAuthCookie"
    THEN Thrown
    ELSE Returned(getAuthCookie(jar))

authenticateVerify_VerifiesFirst(got, clock, fault) ==
    IF got.threw \/ fault = "verifyToken" THEN Done(Thrown)
    ELSE
      LET payload == IF Truthy(got.value)
                     THEN verifyToken(got.value, clock) ELSE Null
      IN
      IF payload = Null
      THEN Done(Returned([error |-> "Invalid token", status |-> 401]))
      ELSE Await(payload)

\* part_000:75-87, from one await to the next: the await raises when getAuthCookie
\* rejected; otherwise the token test, verifyToken (which reads the clock) and the
\* start of the select on users.
authenticateVerify(got, clock, fault) ==
    IF got.threw THEN Done(Thrown)
    ELSE IF ~Truthy(got.value)
    THEN Done(Returned([error |-> "No authentication token found", status |-> 401]))
    ELSE IF fault = "verifyToken" THEN Done(Thrown)
    ELSE
      LET payload == verifyToken(got.value, clock) IN
      IF payload = Null
      THEN Done(Returned([error |-> "Invalid token", status |-> 401]))
      ELSE Await(payload)

\* part_000:87-99: the select on users answers, and the function returns.
authenticateSelect(payload, table, fault) ==
    IF fault = "db" THEN Thrown
    ELSE
      LET rows == selectUserById(table, payload) IN
      IF rows = <<>>
      THEN Returned([error |-> "User not found", status |-> 404])
      ELSE Returned([user |-> rows[1]])

\* The body of the try block run with nothing falling between its turns: its return
\* value, or Thrown when a call in it raises.
authenticateTry(jar, clock, table, fault) ==
    LET verify == authenticateVerify(authenticateStart(jar, fault), clock, fault) IN
    IF verify.done THEN verify.out
    ELSE authenticateSelect(verify.held, table, fault)

authenticateCatch_Rethrows(run) == run

\* catch (error) { return { error: 'Authentication failed', status: 500 } }
authenticateCatch(run) ==
    IF run.threw
    THEN Returned([error |-> "Authentication failed", status |-> 500])
    ELSE run

authenticateRequest(jar, clock, table, fault) ==
    authenticateCatch(authenticateTry(jar, clock, table, fault))

-----------------------------------------------------------------------------
(* lib/rbac: the Permission Table and Evaluator *)

Permission(resource, action) == <<resource, action>>

ROLE_PERMISSIONS ==
    [ admin |->
        { Permission("attendance", "view_all"), Permission("attendance", "approve"),
          Permission("attendance", "edit"), Permission("attendance", "export"),
          Permission("leave", "view_all"), Permission("leave", "approve"),
          Permission("leave", "reject"), Permission("leave", "export"),
          Permission("payroll", "view_all"), Permission("payroll", "edit"),
          Permission("payroll", "export"),
          Permission("employees", "view_all"), Permission("employees", "create"),
          Permission("employees", "edit"), Permission("employees", "delete"),
          Permission("documents", "view_all"), Permission("documents", "upload"),
          Permission("documents", "delete") },
      hr |->
        { Permission("attendance", "view_all"), Permission("attendance", "approve"),
          Permission("attendance", "export"),
          Permission("leave", "view_all"), Permission("leave", "approve"),
          Permission("leave", "reject"), Permission("leave", "export"),
          Permission("payroll", "view_all"), Permission("payroll", "export"),
          Permission("employees", "view_all"), Permission("employees", "edit"),
          Permission("documents", "view_all"), Permission("documents", "upload") },
      employee |->
        { Permission("attendance", "view_own"), Permission("attendance", "check_in"),
          Permission("attendance", "check_out"),
          Permission("leave", "apply"), Permission("leave", "view_own"),
          Permission("payroll", "view_own"),
          Permission("documents", "view_own"), Permission("documents", "upload") } ]

\* ROLE_PERMISSIONS is an object literal: a key it does not declare is looked up on
\* Object.prototype, whose properties are functions or objects, none of them an array.
ObjectPrototypeProperties ==
    { "constructor", "__proto__", "hasOwnProperty", "isPrototypeOf",
      "propertyIsEnumerable", "toLocaleString", "toString", "valueOf",
      "__defineGetter__", "__defineSetter__", "__lookupGetter__", "__lookupSetter__" }

ArrayOf(items) == [type |-> "array", items |-> items]
Undefined == [type |-> "undefined", items |-> {}]
Inherited == [type |-> "inherited", items |-> {}]

\* ROLE_PERMISSIONS[user.role as keyof typeof ROLE_PERMISSIONS]
getProperty(role) ==
    IF role \in DOMAIN ROLE_PERMISSIONS THEN ArrayOf(ROLE_PERMISSIONS[role])
    ELSE IF role \in ObjectPrototypeProperties THEN Inherited
    ELSE Undefined

\* permissions.some(...) raises a TypeError when permissions is no array.
hasPermission(user, resource, action) ==
    LET found == getProperty(user.role)
        permissions == IF found.type = "undefined" THEN ArrayOf({}) ELSE found
    IN IF permissions.type = "array"
       THEN Returned(Permission(resource, action) \in permissions.items)
       ELSE Thrown

\* The two shapes a guard returns: {} and {error: 'Insufficient permissions', status: 403}.
EmptyObject == [k \in {} |-> ""]
InsufficientPermissions == [error |-> "Insufficient permissions", status |-> 403]

\* requirePermission(resource, action)(user)
requirePermission(resource, action, user) ==
    LET allowed == hasPermission(user, resource, action) IN
    IF allowed.threw THEN Thrown
    ELSE IF ~allowed.value THEN Returned(InsufficientPermissions)
    ELSE Returned(EmptyObject)

\* requireRole(allowedRoles)(user)
requireRole(allowedRoles, user) ==
    IF user.role \notin allowedRoles
    THEN Returned(InsufficientPermissions)
    ELSE Returned(EmptyObject)

requireHR(user) == requireRole({"hr", "admin"}, user)
requireAdmin(user) == requireRole({"admin"}, user)
requireEmployee(user) == requireRole({"employee", "hr", "admin"}, user)

canViewAllAttendance(user) == hasPermission(user, "attendance", "view_all")
canViewOwnAttendance(user) == hasPermission(user, "attendance", "view_own")

-----------------------------------------------------------------------------
(* gcet/app/api/attendance/route.ts *)

\* A row of the attendance table.  check_in, check_out, notes and the timestamps are
\* columns carried along with status and are left out; a date is a day number.
Row(id, user_id, date, status) ==
    [id |-> id, user_id |-> user_id, date |-> date, status |-> status]

\* searchParams.get(name) yields null when the parameter is missing.
NoParam == "<null>"
ParamTruthy(param) == param \notin {NoParam, ""}

JsonResponse(body, status) == [body |-> body, status |-> status]
ErrorBody(error) == [error |-> error]
NoResponse == JsonResponse(ErrorBody("<uncaught>"), 0)

NoQuery == [made |-> FALSE]
Query(effectiveUserId, from, to) ==
    [made |-> TRUE, byUser |-> ParamTruthy(effectiveUserId),
     userId |-> effectiveUserId, byDate |-> (from # 0 /\ to # 0)]

\* What a run of a handler's try block comes to:
\*   threw  an exception left the try block
\*   res    the response returned
\*   auth   what authenticateRequest returned
\*   steps  the calls made, in order: authenticateRequest, then select, insert or update
\*          on the attendance table
\*   query  the where-conditions of the select
Replied(res, auth, steps, query) ==
    [threw |-> FALSE, res |-> res, auth |-> auth, steps |-> steps, query |-> query]
Raised(auth, steps, query) ==
    [threw |-> TRUE, res |-> NoResponse, auth |-> auth, steps |-> steps,
     query |-> query]

\* catch { return NextResponse.json({ error: 'Internal server error' }, { status: 500 }) }
catchAll(run) ==
    IF run.threw
    THEN [run EXCEPT !.threw = FALSE,
                     !.res = JsonResponse(ErrorBody("Internal server error"), 500)]
    ELSE run

\* auth.error || !auth.user
authFailed(result) == "error" \in DOMAIN result \/ "user" \notin DOMAIN result

\* NextResponse.json({ error: auth.error }, { status: auth.status || 401 })
authFailureResponse(result) ==
    JsonResponse(ErrorBody(IF "error" \in DOMAIN result THEN result.error
                           ELSE "<undefined>"),
                 IF "status" \in DOMAIN result THEN result.status ELSE 401)

Forbidden == JsonResponse(ErrorBody("Insufficient permissions"), 403)

\* route.ts:9-12, 141-144, 181-184: authenticateRequest has returned and did not yield
\* a user; the three handlers answer alike.
authRefused(auth) ==
    IF auth.threw THEN Raised(auth, <<"authenticateRequest">>, NoQuery)
    ELSE Replied(authFailureResponse(auth.value), auth, <<"authenticateRequest">>,
                 NoQuery)

\* db.select(...).from(attendance).leftJoin(users, ...).where(and(...conditions))
selectAttendance(rows, effectiveUserId, from, to) ==
    { rows[i] : i \in { j \in 1..Len(rows) :
        /\ ParamTruthy(effectiveUserId) => rows[j].user_id = effectiveUserId
        /\ (from # 0 /\ to # 0) => (rows[j].date >= from /\ rows[j].date <= to) } }

\* GET, route.ts:10-73, up to the await: authenticateRequest has returned; the
\* parameters are read, the permissions decide the filter and the select is started.
GETauthorize(auth, userId, from, to) ==
    LET called == <<"authenticateRequest">> IN
    IF auth.threw \/ authFailed(auth.value) THEN Done(authRefused(auth))
    ELSE
      LET user == auth.value.user
          viewAll == canViewAllAttendance(user)
          viewOwn == canViewOwnAttendance(user)
      IN
      IF viewAll.threw THEN Done(Raised(auth, called, NoQuery))
      ELSE IF viewAll.value THEN Await(userId)
      ELSE IF viewOwn.threw THEN Done(Raised(auth, called, NoQuery))
      ELSE IF viewOwn.value
      THEN IF ParamTruthy(userId) /\ userId # user.id
           THEN Done(Replied(Forbidden, auth, called, NoQuery))
           ELSE Await(user.id)
      ELSE Done(Replied(Forbidden, auth, called, NoQuery))

\* GET, route.ts:73-129: the select on attendance answers and the records are returned.
runQuery(auth, rows, fault, effectiveUserId, from, to) ==
    IF fault = "attendance"
    THEN Raised(auth, <<"authenticateRequest", "select">>,
                Query(effectiveUserId, from, to))
    ELSE Replied(JsonResponse([records |->
                                  selectAttendance(rows, effectiveUserId, from, to)], 200),
                 auth, <<"authenticateRequest", "select">>,
                 Query(effectiveUserId, from, to))

\* request.json(): the parsed body, or a body that is no JSON and makes json() raise.
InvalidBody == [valid |-> FALSE]
PostBody(date) == [valid |-> TRUE, date |-> date]
PutBody(id, status) == [valid |-> TRUE, id |-> id, status |-> status]
\* The body of a request that was answered before request.json() was called.
NoBody == [read |-> FALSE]

\* NextResponse.json({ error: permissionCheck.error }, { status: permissionCheck.status || 403 })
permissionFailureResponse(check) ==
    JsonResponse(ErrorBody(check.error),
                 IF "status" \in DOMAIN check THEN check.status ELSE 403)

\* The permission test of POST and PUT (route.ts:147-150, 187-190), up to the await of
\* request.json().
authorize(auth, resource, action) ==
    LET called == <<"authenticateRequest">> IN
    IF auth.threw \/ authFailed(auth.value) THEN Done(authRefused(auth))
    ELSE
      LET permissionCheck == requirePermission(resource, action, auth.value.user) IN
      IF permissionCheck.threw THEN Done(Raised(auth, called, NoQuery))
      ELSE IF "error" \in DOMAIN permissionCheck.value
      THEN Done(Replied(permissionFailureResponse(permissionCheck.value), auth, called,
                        NoQuery))
      ELSE Await(auth.value.user)

\* POST, route.ts:142-152.
POSTauthorize(auth) == authorize(auth, "attendance", "check_in")

\* POST, route.ts:152-160, up to the await: the body is parsed and the insert started.
POSTvalidate(auth, body) ==
    LET called == <<"authenticateRequest">> IN
    IF ~body.valid THEN Done(Raised(auth, called, NoQuery))
    ELSE IF body.date = 0
    THEN Done(Replied(JsonResponse(ErrorBody("Date is required"), 400), auth, called,
                      NoQuery))
    ELSE Await([user_id |-> auth.value.user.id, date |-> body.date, status |-> "present"])

\* POST, route.ts:160-169: the insert is made and the new row returned.  The result is
\* the run and the table afterwards.
POSTinsert(auth, values, rows, fault) ==
    IF fault = "attendance"
    THEN [run |-> Raised(auth, <<"authenticateRequest", "insert">>, NoQuery),
          table |-> rows]
    ELSE
      LET newRecord == Row(Len(rows) + 1, values.user_id, values.date, values.status) IN
      [run |-> Replied(JsonResponse([record |-> newRecord], 201), auth,
                       <<"authenticateRequest", "insert">>, NoQuery),
       table |-> Append(rows, newRecord)]

PUTauthorize_NoPermissionCheck(auth) ==
    IF auth.threw \/ authFailed(auth.value) THEN Done(authRefused(auth))
    ELSE Await(auth.value.user)

\* PUT, route.ts:182-192.
PUTauthorize(auth) == authorize(auth, "attendance", "edit")

\* PUT, route.ts:192-205, up to the await: the body is parsed and the update started.
PUTvalidate(auth, body) ==
    LET called == <<"authenticateRequest">> IN
    IF ~body.valid THEN Done(Raised(auth, called, NoQuery))
    ELSE IF body.id = 0
    THEN Done(Replied(JsonResponse(ErrorBody("ID is required"), 400), auth, called,
                      NoQuery))
    ELSE Await([id |-> body.id,
                status |-> IF body.status = "" THEN "present" ELSE body.status])

\* PUT, route.ts:205-215: the update is made and the updated row returned.
PUTupdate(auth, updateData, rows, fault) ==
    LET made == <<"authenticateRequest", "update">> IN
    IF fault = "attendance"
    THEN [run |-> Raised(auth, made, NoQuery), table |-> rows]
    ELSE IF updateData.id \notin 1..Len(rows)
    THEN [run |-> Replied(JsonResponse(ErrorBody("Attendance record not found"), 404),
                          auth, made, NoQuery),
          table |-> rows]
    ELSE
      LET updated == [rows EXCEPT ![updateData.id].status = updateData.status] IN
      [run |-> Replied(JsonResponse([record |-> updated[updateData.id]], 200), auth,
                       made, NoQuery),
       table |-> updated]

-----------------------------------------------------------------------------
(* The state machine *)

\* A request in flight is at one of these positions:
\*   token   waiting at `await getAuthCookie()`; it holds what that call settles with
\*   users   waiting at the select on users; it holds the payload of the token
\*   auth    a handler waiting at `await authenticateRequest(request)`, the call having
\*           returned; it holds what the call returned
\*   body    waiting at `await request.json()` (POST, PUT)
\*   select, insert, update   waiting at the statement on the attendance table
Free == [pc |-> "free"]
Idle == [op |-> "idle"]
NoPin == [set |-> FALSE]

\* The operations that call authenticateRequest.
Callers == {"authenticateRequest", "GET", "POST", "PUT"}

GuardObs(pathname, token, res) ==
    [op |-> "middleware", pathname |-> pathname, token |-> token, res |-> res]

\* at: the turn of authenticateRequest in which it returned (verify, select).  fault:
\* the condition under which the call it returned from was made.
AuthObs(token, fault, at, out) ==
    [op |-> "authenticateRequest", token |-> token, fault |-> fault, at |-> at,
     out |-> out]

HandlerObs(op, token, fault, userId, body, run) ==
    [op |-> op, token |-> token, fault |-> fault, userId |-> userId, body |-> body,
     out |-> catchAll(run)]

\* calls is the bag of the places for requests in flight: a place is Free or holds
\* the request that took it.
Places(n) == Free :> n
InFlight == BagToSet(calls) \ {Free}
Replace(old, new) == (calls (-) SetToBag({old})) (+) SetToBag({new})

Answer(call, observation) ==
    /\ calls' = Replace(call, Free)
    /\ last' = observation

Suspend(call, next) ==
    /\ calls' = Replace(call, next)
    /\ last' = Idle

\* A request arrives at the guard (middleware.ts:24-33).  On a public path it is
\* answered at once; otherwise getAuthCookie is called and the guard waits.
Middleware(pathname) ==
    /\ BagIn(Free, calls)
    /\ IF isPublicRoute(pathname)
       THEN Answer(Free, GuardObs(pathname, cookie, middleware(pathname, cookie, now)))
       ELSE Suspend(Free, [op |-> "middleware", pc |-> "token", pathname |-> pathname,
                           token |-> getAuthCookie(cookie)])
    /\ UNCHANGED <<cookie, users, now, pinned, attendance>>

\* The guard resumes with the token (middleware.ts:33-84) and answers.  The Set-Cookie
\* of an answer is a header of the response: the cookie that requests carry changes
\* only when the client sends another one (SetCookie).
MiddlewareResume(call) ==
    /\ call.pc = "token" /\ call.op = "middleware"
    /\ Answer(call, GuardObs(call.pathname, call.token,
                             middlewareResume(call.pathname, call.token, now)))
    /\ UNCHANGED <<cookie, users, now, pinned, attendance>>

\* The client comes with another cookie (login, logout, a forged value, or the
\* removal a Set-Cookie with maxAge 0 asks for).
SetCookie(value) ==
    /\ value # cookie
    /\ cookie' = value
    /\ last' = Idle
    /\ UNCHANGED <<users, now, calls, pinned, attendance>>

\* Time passes; tokens expire.
Tick ==
    /\ now < MaxTime
    /\ now' = now + 1
    /\ last' = Idle
    /\ UNCHANGED <<cookie, users, calls, pinned, attendance>>

\* authenticateRequest returns out in this turn.  A direct call is answered.  A handler
\* is waiting at `await authenticateRequest(request)` (route.ts:9, 141, 181): its
\* continuation is queued and runs in a later turn.
Return(call, fault, at, out) ==
    IF call.op = "authenticateRequest"
    THEN Answer(call, AuthObs(call.token, fault, at, out))
    ELSE Suspend(call, [op |-> call.op, pc |-> "auth", token |-> call.token,
                        auth |-> out])

\* authenticateRequest is called, directly or as the first statement of a handler
\* (part_000:69-75): getAuthCookie reads the cookie and the call waits.
Call(op, fault) ==
    /\ BagIn(Free, calls)
    /\ Suspend(Free, [op |-> op, pc |-> "token", token |-> cookie,
                       got |-> authenticateStart(cookie, fault)])
    /\ UNCHANGED <<cookie, users, now, pinned, attendance>>

AuthenticateRequest(fault) == Call("authenticateRequest", fault)

\* authenticateRequest resumes with the token (part_000:75-87): it returns an error, or
\* verifies the token against the clock and waits for the select on users.
AuthenticateResume(call, fault) ==
    /\ call.pc = "token" /\ call.op \in Callers
    /\ LET verify == authenticateVerify(call.got, now, fault)
       IN
       IF verify.done
       THEN Return(call, IF call.got.threw THEN "getAuthCookie" ELSE fault,
                   "verify", authenticateCatch(verify.out))
       ELSE Suspend(call, [op |-> call.op, pc |-> "users", token |-> call.token,
                           payload |-> verify.held])
    /\ UNCHANGED <<cookie, users, now, pinned, attendance>>

AuthenticateReturn_ConsumesToken(call, fault, pin) ==
    /\ call.pc = "users" /\ call.op = "authenticateRequest"
    /\ LET out == authenticateCatch(authenticateSelect(call.payload, users, fault))
           found == ~out.threw /\ "user" \in DOMAIN out.value
       IN
       /\ Answer(call, AuthObs(call.token, fault, "select", out))
       /\ pinned' = IF pin /\ found
                    THEN [set |-> TRUE, token |-> call.token, id |-> out.value.user.id,
                          time |-> now]
                    ELSE pinned
       /\ cookie' = IF found THEN AbsentCookie ELSE cookie
    /\ UNCHANGED <<users, now, attendance>>

\* The select on users answers a direct call (part_000:87-103), which returns.  pin
\* chooses whether this call is the one kept in pinned for comparison with later calls.
AuthenticateReturn(call, fault, pin) ==
    /\ call.pc = "users" /\ call.op = "authenticateRequest"
    /\ LET out == authenticateCatch(authenticateSelect(call.payload, users, fault))
       IN
       /\ Answer(call, AuthObs(call.token, fault, "select", out))
       /\ pinned' = IF pin /\ ~out.threw /\ "user" \in DOMAIN out.value
                    THEN [set |-> TRUE, token |-> call.token, id |-> out.value.user.id,
                          time |-> now]
                    ELSE pinned
    /\ UNCHANGED <<cookie, users, now, attendance>>

\* The select on users answers a call made by a handler (part_000:87-103):
\* authenticateRequest returns to the handler, which goes on in a later turn.
AuthenticateReturnToHandler(call, fault) ==
    /\ call.pc = "users" /\ call.op \in Callers \ {"authenticateRequest"}
    /\ Return(call, fault, "select",
              authenticateCatch(authenticateSelect(call.payload, users, fault)))
    /\ UNCHANGED <<cookie, users, now, pinned, attendance>>

\* The guard alone.  It never reads the users table, which holds no row here.
Init ==
    /\ cookie \in CookieValues
    /\ users = [u \in UserIds |-> NoUser]
    /\ now = 0
    /\ calls = Places(1)
    /\ last = Idle
    /\ pinned = NoPin
    /\ attendance = <<>>

Next ==
    \/ \E pathname \in Pathnames : Middleware(pathname)
    \/ \E call \in InFlight : MiddlewareResume(call)
    \/ \E value \in CookieValues : SetCookie(value)
    \/ Tick

Spec == Init /\ [][Next]_vars

\* Direct calls of authenticateRequest, over every users table.
InitAuth ==
    /\ cookie \in CookieValues
    /\ users \in [UserIds -> StoredRoles \cup {NoUser}]
    /\ now = 0
    /\ calls = Places(1)
    /\ last = Idle
    /\ pinned = NoPin
    /\ attendance = <<>>

NextAuth ==
    \/ \E fault \in {"none", "getAuthCookie"} : AuthenticateRequest(fault)
    \/ \E call \in InFlight, fault \in {"none", "verifyToken"} :
          AuthenticateResume(call, fault)
    \/ \E call \in InFlight, fault \in {"none", "db"} :
          AuthenticateReturn(call, fault, FALSE)
    \/ \E value \in CookieValues : SetCookie(value)
    \/ Tick

SpecAuth == InitAuth /\ [][NextAuth]_vars

\* Direct calls with one successful call pinned, guard requests in between, two
\* requests in flight at a time, over stores that differ in which users exist.
IdemCookies ==
    { value \in CookieValues :
        value = AbsentCookie \/ (value.kind = "signed" /\ value.role = "employee") }

InitIdem ==
    /\ cookie \in IdemCookies
    /\ users \in [UserIds -> {"employee", NoUser}]
    /\ now = 0
    /\ calls = Places(2)
    /\ last = Idle
    /\ pinned = NoPin
    /\ attendance = <<>>

NextIdem ==
    \/ Middleware("/profile")
    \/ \E call \in InFlight : MiddlewareResume(call)
    \/ \E fault \in {"none", "getAuthCookie"} : AuthenticateRequest(fault)
    \/ \E call \in InFlight, fault \in {"none", "verifyToken"} :
          AuthenticateResume(call, fault)
    \/ \E call \in InFlight, fault \in {"none", "db"}, pin \in BOOLEAN :
          AuthenticateReturn(call, fault, pin)
    \/ \E value \in IdemCookies : SetCookie(value)
    \/ Tick

SpecIdem == InitIdem /\ [][NextIdem]_vars

\* The Permission Evaluator applied to every user role, resource and action drawn from
\* the strings below.
RoleStrings ==
    { "admin", "hr", "employee", "intern", "Admin", "", "constructor", "__proto__",
      "toString" }
Resources == { "attendance", "leave", "payroll", "employees", "documents", "reports" }
Actions ==
    { "view_all", "view_own", "approve", "reject", "edit", "export", "create",
      "delete", "upload", "apply", "check_in", "check_out", "purge" }

InitPerm ==
    /\ cookie = AbsentCookie
    /\ users = [u \in UserIds |-> NoUser]
    /\ now = 0
    /\ calls = Places(1)
    /\ last = Idle
    /\ pinned = NoPin
    /\ attendance = <<>>

HasPermissionCall(role, resource, action) ==
    /\ last' = [op |-> "hasPermission", role |-> role, resource |-> resource,
                action |-> action,
                out |-> hasPermission(AuthenticatedUser("u1", role), resource, action)]
    /\ UNCHANGED <<cookie, users, now, calls, pinned, attendance>>

NextPerm ==
    \E role \in RoleStrings, resource \in Resources, action \in Actions :
        HasPermissionCall(role, resource, action)

SpecPerm == InitPerm /\ [][NextPerm]_vars

\* The curried guards applied to users of every role string.
AllowedRoleLists ==
    { {}, {"admin"}, {"hr", "admin"}, {"employee", "hr", "admin"}, {"intern"},
      {"constructor", "admin"} }
NamedGuards == {"requireHR", "requireAdmin", "requireEmployee"}

RequirePermissionCall(role, resource, action) ==
    /\ last' = [op |-> "requirePermission", role |-> role, resource |-> resource,
                action |-> action,
                out |-> requirePermission(resource, action, AuthenticatedUser("u1", role))]
    /\ UNCHANGED <<cookie, users, now, calls, pinned, attendance>>

RequireRoleCall(allowedRoles, role) ==
    /\ last' = [op |-> "requireRole", role |-> role, allowedRoles |-> allowedRoles,
                out |-> requireRole(allowedRoles, AuthenticatedUser("u1", role))]
    /\ UNCHANGED <<cookie, users, now, calls, pinned, attendance>>

NamedGuardCall(guard, role) ==
    LET user == AuthenticatedUser("u1", role) IN
    /\ last' = [op |-> guard, role |-> role,
                out |-> CASE guard = "requireHR" -> requireHR(user)
                          [] guard = "requireAdmin" -> requireAdmin(user)
                          [] guard = "requireEmployee" -> requireEmployee(user)]
    /\ UNCHANGED <<cookie, users, now, calls, pinned, attendance>>

NextRequire ==
    \/ \E role \in RoleStrings, resource \in Resources, action \in Actions :
          RequirePermissionCall(role, resource, action)
    \/ \E allowedRoles \in AllowedRoleLists, role \in RoleStrings :
          RequireRoleCall(allowedRoles, role)
    \/ \E guard \in NamedGuards, role \in RoleStrings : NamedGuardCall(guard, role)

SpecRequire == InitPerm /\ [][NextRequire]_vars

-----------------------------------------------------------------------------
(* The attendance handlers as requests in flight *)

\* The number of check-ins sent; the code sets no limit to the rows.
MaxRecords == 2

HandlerRoles == StoredRoles \cup {"constructor"}
UserIdParams == {NoParam, "", "u1", "u2"}
DateRanges == { <<0, 0>>, <<1, 0>>, <<2, 2>> }
PostBodies == {InvalidBody, PostBody(0), PostBody(1)}
PutBodies ==
    {InvalidBody} \cup
    { PutBody(id, status) : id \in 0..MaxRecords, status \in {"", "absent"} }

\* u1's token claims the employee role and u2's the admin role, whatever the table
\* holds; both expire at the last tick of the clock.
HandlerCookies ==
    { AbsentCookie, Token("signed", "u1", "employee", MaxTime),
      Token("signed", "u2", "admin", MaxTime) }

\* A handler is called (route.ts:9, 141, 181): its first statement calls
\* authenticateRequest, which reads the cookie and waits.
GETRequest(fault) == Call("GET", fault)

PUTRequest(fault) == Call("PUT", fault)

POSTRequest(fault) ==
    /\ Len(attendance)
         + BagCardinality([call \in { held \in InFlight : held.op = "POST" }
                             |-> CopiesIn(call, calls)])
           < MaxRecords
    /\ Call("POST", fault)

\* GET goes on after `await authenticateRequest(request)` (route.ts:9-73): the
\* parameters are read, the permissions are tested and the select on attendance is
\* started.  The observation holds the userId parameter when the handler came to read
\* it.
GETResume(call, userId, range) ==
    /\ call.pc = "auth" /\ call.op = "GET"
    /\ LET auth == call.auth
           next == GETauthorize(auth, userId, range[1], range[2])
       IN
       IF next.done
       THEN Answer(call, HandlerObs("GET", call.token, "none",
                                    IF auth.threw \/ authFailed(auth.value)
                                    THEN NoParam ELSE userId,
                                    NoBody, next.out))
       ELSE Suspend(call, [op |-> "GET", pc |-> "select", token |-> call.token,
                           auth |-> auth, userId |-> userId,
                           effectiveUserId |-> next.held,
                           from |-> range[1], to |-> range[2]])
    /\ UNCHANGED <<cookie, users, now, pinned, attendance>>

\* The select on attendance answers (route.ts:73-129).
GETSelect(call, fault) ==
    /\ call.pc = "select"
    /\ Answer(call, HandlerObs("GET", call.token, fault, call.userId, NoBody,
                               runQuery(call.auth, attendance, fault,
                                        call.effectiveUserId, call.from, call.to)))
    /\ UNCHANGED <<cookie, users, now, pinned, attendance>>

\* POST goes on after `await authenticateRequest(request)` (route.ts:141-152).
POSTResume(call) ==
    /\ call.pc = "auth" /\ call.op = "POST"
    /\ LET auth == call.auth
           next == POSTauthorize(auth)
       IN
       IF next.done
       THEN Answer(call, HandlerObs("POST", call.token, "none", NoParam, NoBody, next.out))
       ELSE Suspend(call, [op |-> "POST", pc |-> "body", token |-> call.token,
                           auth |-> auth])
    /\ UNCHANGED <<cookie, users, now, pinned, attendance>>

\* request.json() answers with the request's body (route.ts:152-160).
POSTBody(call, body) ==
    /\ call.pc = "body" /\ call.op = "POST"
    /\ LET next == POSTvalidate(call.auth, body)
       IN
       IF next.done
       THEN Answer(call, HandlerObs("POST", call.token, "none", NoParam, body, next.out))
       ELSE Suspend(call, [op |-> "POST", pc |-> "insert", token |-> call.token,
                           auth |-> call.auth, body |-> body, values |-> next.held])
    /\ UNCHANGED <<cookie, users, now, pinned, attendance>>

\* The insert is made (route.ts:160-169).
POSTInsert(call, fault) ==
    /\ call.pc = "insert"
    /\ LET made == POSTinsert(call.auth, call.values, attendance, fault)
       IN
       /\ Answer(call, HandlerObs("POST", call.token, fault, NoParam, call.body, made.run))
       /\ attendance' = made.table
    /\ UNCHANGED <<cookie, users, now, pinned>>

\* PUT goes on after `await authenticateRequest(request)` (route.ts:181-192).
PUTResume(call) ==
    /\ call.pc = "auth" /\ call.op = "PUT"
    /\ LET auth == call.auth
           next == PUTauthorize(auth)
       IN
       IF next.done
       THEN Answer(call, HandlerObs("PUT", call.token, "none", NoParam, NoBody, next.out))
       ELSE Suspend(call, [op |-> "PUT", pc |-> "body", token |-> call.token,
                           auth |-> auth])
    /\ UNCHANGED <<cookie, users, now, pinned, attendance>>

\* request.json() answers with the request's body (route.ts:192-205).
PUTBody(call, body) ==
    /\ call.pc = "body" /\ call.op = "PUT"
    /\ LET next == PUTvalidate(call.auth, body)
       IN
       IF next.done
       THEN Answer(call, HandlerObs("PUT", call.token, "none", NoParam, body, next.out))
       ELSE Suspend(call, [op |-> "PUT", pc |-> "update", token |-> call.token,
                           auth |-> call.auth, body |-> body, updateData |-> next.held])
    /\ UNCHANGED <<cookie, users, now, pinned, attendance>>

\* The update is made (route.ts:205-215).
PUTUpdate(call, fault) ==
    /\ call.pc = "update"
    /\ LET made == PUTupdate(call.auth, call.updateData, attendance, fault)
       IN
       /\ Answer(call, HandlerObs("PUT", call.token, fault, NoParam, call.body, made.run))
       /\ attendance' = made.table
    /\ UNCHANGED <<cookie, users, now, pinned>>

\* Two requests in flight at a time.  The users table holds u1 with any role, also one
\* that ROLE_PERMISSIONS does not declare, or no u1, and u2 as an employee.
InitAttendance ==
    /\ cookie \in HandlerCookies
    /\ users \in { table \in [UserIds -> HandlerRoles \cup {NoUser}] :
                     table["u2"] = "employee" }
    /\ now = MaxTime - 1
    /\ calls = Places(2)
    /\ last = Idle
    /\ pinned = NoPin
    /\ attendance = <<>>

NextAttendance ==
    \/ Middleware("/api/attendance")
    \/ \E call \in InFlight : MiddlewareResume(call)
    \/ \E fault \in {"none", "getAuthCookie"} : GETRequest(fault)
    \/ \E fault \in {"none", "getAuthCookie"} : POSTRequest(fault)
    \/ \E fault \in {"none", "getAuthCookie"} : PUTRequest(fault)
    \/ \E call \in InFlight, fault \in {"none", "verifyToken"} :
          AuthenticateResume(call, fault)
    \/ \E call \in InFlight, fault \in {"none", "db"} :
          AuthenticateReturnToHandler(call, fault)
    \/ \E call \in InFlight, userId \in UserIdParams, range \in DateRanges :
          GETResume(call, userId, range)
    \/ \E call \in InFlight, fault \in {"none", "attendance"} : GETSelect(call, fault)
    \/ \E call \in InFlight : POSTResume(call)
    \/ \E call \in InFlight, body \in PostBodies : POSTBody(call, body)
    \/ \E call \in InFlight, fault \in {"none", "attendance"} : POSTInsert(call, fault)
    \/ \E call \in InFlight : PUTResume(call)
    \/ \E call \in InFlight, body \in PutBodies : PUTBody(call, body)
    \/ \E call \in InFlight, fault \in {"none", "attendance"} : PUTUpdate(call, fault)
    \/ \E value \in HandlerCookies : SetCookie(value)
    \/ Tick

SpecAttendance == InitAttendance /\ [][NextAttendance]_vars

-----------------------------------------------------------------------------
(* What the specification declares (sections 4.4 and 6), stated apart from   *)
(* the code's tables.                                                        *)

DeclaredPublicPrefixes ==
    { "/auth/login", "/auth/register", "/api/auth/login", "/api/auth/register",
      "/api/auth/logout" }

DeclaredRules ==
    << [prefix |-> "/employees", roles |-> {"hr", "admin"}],
       [prefix |-> "/reports", roles |-> {"hr", "admin"}],
       [prefix |-> "/settings", roles |-> {"admin"}],
       [prefix |-> "/api/employees", roles |-> {"hr", "admin"}],
       [prefix |-> "/api/reports", roles |-> {"hr", "admin"}],
       [prefix |-> "/api/users", roles |-> {"hr", "admin"}] >>

DeclaredLoginPrefixes ==
    { "/app/", "/api/", "/dashboard", "/attendance", "/documents", "/leave",
      "/payroll" }

LoginPage == "/auth/login"
DashboardWithError == "/dashboard?error=insufficient_permissions"

DeclaredPublic(pathname) ==
    \E prefix \in DeclaredPublicPrefixes : startsWith(pathname, prefix)

MatchingRules(pathname) ==
    { i \in 1..Len(DeclaredRules) : startsWith(pathname, DeclaredRules[i].prefix) }

FirstMatchingRule(pathname) ==
    DeclaredRules[CHOOSE i \in MatchingRules(pathname) :
                    \A j \in MatchingRules(pathname) : i <= j]

\* The step just taken answered a guard request.  last.token is the token the request
\* carried (the one getAuthCookie read when the guard called it); the guard verifies
\* it in the step that answers, so at the present time.
GuardRequest == last.op = "middleware"

Accepted(token) == Truthy(token) /\ verifyToken(token, now) # Null
Rejected(token) == Truthy(token) /\ verifyToken(token, now) = Null

PassThrough(res) == res.outcome = "next" /\ res.location = ""
RedirectTo(res, location) == res.outcome = "redirect" /\ res.location = location

-----------------------------------------------------------------------------
(* Route Guard *)

\* C1: for a non-public path and a token that verifyToken accepts, the first declared
\* rule whose prefix starts the path decides: the request is redirected to
\* /dashboard?error=insufficient_permissions when such a rule exists and the payload's
\* role is not among its roles, and passes through in every other case; /employees is
\* redirected for employee and passes for hr.
C1_FirstRuleDecides ==
    (GuardRequest /\ ~DeclaredPublic(last.pathname) /\ Accepted(last.token)) =>
        /\ IF /\ MatchingRules(last.pathname) # {}
              /\ last.token.role \notin FirstMatchingRule(last.pathname).roles
           THEN RedirectTo(last.res, DashboardWithError)
           ELSE PassThrough(last.res)
        /\ (last.pathname = "/employees" /\ last.token.role = "employee")
              => RedirectTo(last.res, DashboardWithError)
        /\ (last.pathname = "/employees" /\ last.token.role = "hr")
              => PassThrough(last.res)

\* The request came with hr's token, which the client has replaced since.
C1_Witness ==
    /\ GuardRequest /\ Accepted(last.token)
    /\ last.pathname = "/settings" /\ last.token.role = "hr"
    /\ RedirectTo(last.res, DashboardWithError)
    /\ cookie # last.token

\* C2: a request to a non-public path with a token that verifyToken rejects is
\* redirected to /auth/login, the response sets auth-token to '' with maxAge 0 and
\* path '/', and the role check is not reached.
C2_RejectedTokenCleared ==
    (GuardRequest /\ ~DeclaredPublic(last.pathname) /\ Rejected(last.token)) =>
        /\ RedirectTo(last.res, LoginPage)
        /\ Len(last.res.setCookie) = 1
        /\ last.res.setCookie[1].name = "auth-token"
        /\ last.res.setCookie[1].value = ""
        /\ last.res.setCookie[1].maxAge = 0
        /\ last.res.setCookie[1].path = "/"
        /\ ~last.res.roleChecked

\* An expired token, correctly signed, on a path no login prefix covers; the client
\* still holds the token after the answer.
C2_Witness ==
    /\ GuardRequest /\ last.pathname = "/profile"
    /\ last.token.kind = "signed" /\ now >= last.token.exp
    /\ RedirectTo(last.res, LoginPage) /\ last.res.setCookie # <<>>
    /\ cookie = last.token

\* C3: a request under a role-gated prefix passes through only with a token that
\* verifyToken accepts and whose role the prefix allows; without a credential, with an
\* invalid token or with a disallowed role it is redirected.
C3_GatedPrefixNeedsRole ==
    (GuardRequest /\ MatchingRules(last.pathname) # {}) =>
        /\ PassThrough(last.res) =>
              /\ Accepted(last.token)
              /\ last.token.role \in FirstMatchingRule(last.pathname).roles
        /\ ~( /\ Accepted(last.token)
              /\ last.token.role \in FirstMatchingRule(last.pathname).roles )
              => last.res.outcome = "redirect"

\* C4: a non-public request without a credential is redirected to /auth/login exactly
\* when its path is '/' or starts with one of the login prefixes, and passes through
\* otherwise; verifyToken is not called, the role check is not run and no cookie is set.
C4_NoCredential ==
    (GuardRequest /\ ~DeclaredPublic(last.pathname) /\ ~Truthy(last.token)) =>
        /\ IF \/ last.pathname = "/"
              \/ \E prefix \in DeclaredLoginPrefixes : startsWith(last.pathname, prefix)
           THEN RedirectTo(last.res, LoginPage)
           ELSE PassThrough(last.res)
        /\ ~last.res.verifyCalled
        /\ ~last.res.roleChecked
        /\ last.res.setCookie = <<>>

C4_Witness ==
    /\ GuardRequest /\ last.pathname = "/payroll" /\ last.token = AbsentCookie
    /\ RedirectTo(last.res, LoginPage) /\ last.res.setCookie = <<>>

\* C5: a path under a public prefix passes through whatever the credential is, and the
\* credential is neither read, nor verified, nor cleared.
C5_PublicBypass ==
    (GuardRequest /\ DeclaredPublic(last.pathname)) =>
        /\ PassThrough(last.res)
        /\ ~last.res.cookieRead
        /\ ~last.res.verifyCalled
        /\ ~last.res.roleChecked
        /\ last.res.setCookie = <<>>

\* A public path that is not a declared prefix itself, with a tampered token.
C5_Witness ==
    /\ GuardRequest /\ last.pathname = "/auth/login/reset"
    /\ last.token.kind = "tampered" /\ PassThrough(last.res)

-----------------------------------------------------------------------------
(* Request Authenticator *)

\* The step just taken made a direct call of authenticateRequest return.  last.token
\* is the token getAuthCookie read when the call was made and last.at the turn in which
\* the call returned: a call that returns in its verify turn verifies the token at the
\* present time, and one that returns in its select turn verified it in an earlier
\* step, at a time up to the present.
AuthCall == last.op = "authenticateRequest"

HasUser(out) == ~out.threw /\ "user" \in DOMAIN out.value
HasError(out) == ~out.threw /\ "error" \in DOMAIN out.value
IsError(out, error, status) ==
    ~out.threw /\ out.value = [error |-> error, status |-> status]

UserExists(token) == users[token.userId] # NoUser

AcceptedBefore(token) == \E clock \in 0..now : verifyToken(token, clock) # Null

\* The call that the answering step returned from raised: getAuthCookie or the select
\* on users rejected, or verifyToken was reached and threw.
FaultRaised ==
    \/ last.at = "verify" /\ last.fault = "getAuthCookie"
    \/ last.at = "verify" /\ last.fault = "verifyToken" /\ Truthy(last.token)
    \/ last.at = "select" /\ last.fault = "db"

\* C6: the failure branches are resolved in order.  Without a token the result is
\* {error: 'No authentication token found', status: 401} whatever the store holds;
\* with a token verifyToken rejects it is {error: 'Invalid token', status: 401}; with
\* an accepted token and no row for its userId it is {error: 'User not found', status:
\* 404}; otherwise it is a user.  A user is returned only when
\* every step succeeded, and no result carries both a user and an error.  (The steps
\* passed on the way are taken to have raised no fault; C8 is about the faults.)
C6_BranchOrder ==
    AuthCall =>
        /\ (~Truthy(last.token) /\ last.fault # "getAuthCookie")
              => IsError(last.out, "No authentication token found", 401)
        /\ (last.at = "verify" /\ Rejected(last.token) /\ ~FaultRaised)
              => IsError(last.out, "Invalid token", 401)
        /\ (last.at = "verify" /\ Truthy(last.token) /\ ~FaultRaised)
              => Rejected(last.token)
        /\ last.at = "select" => Truthy(last.token) /\ AcceptedBefore(last.token)
        /\ (last.at = "select" /\ ~UserExists(last.token) /\ last.fault # "db")
              => IsError(last.out, "User not found", 404)
        /\ (last.at = "select" /\ UserExists(last.token) /\ last.fault # "db")
              => HasUser(last.out)
        /\ HasUser(last.out)
              => last.at = "select" /\ UserExists(last.token) /\ last.fault # "db"
        /\ ~(HasUser(last.out) /\ HasError(last.out))

\* A tampered token naming a user that has no row: the answer is about the token.
C6_Witness ==
    /\ AuthCall /\ last.token.kind = "tampered" /\ ~UserExists(last.token)
    /\ last.at = "verify" /\ last.fault = "none"
    /\ IsError(last.out, "Invalid token", 401)

\* C7 as stated: for an accepted token with role R whose userId has a row, the user
\* returned has role R, whatever role the row holds.
C7_RoleOfToken ==
    (AuthCall /\ last.at = "select" /\ UserExists(last.token) /\ last.fault # "db")
        => HasUser(last.out) /\ last.out.value.user.role = last.token.role

\* C7 amended: for an accepted token whose userId has a row, the user returned is that
\* row: its id is the token's userId and its role is the role stored in the row.
C7_RoleOfStoredUser ==
    (AuthCall /\ last.at = "select" /\ UserExists(last.token) /\ last.fault # "db")
        => /\ HasUser(last.out)
           /\ last.out.value.user.id = last.token.userId
           /\ last.out.value.user.role = users[last.token.userId]

C7_Witness ==
    /\ AuthCall /\ HasUser(last.out)
    /\ last.token.role = "admin" /\ last.out.value.user.role = "employee"

\* C8: authenticateRequest never throws; a fault raised while reading the cookie,
\* verifying the token or querying the store becomes {error: 'Authentication failed',
\* status: 500}, and every call returns a user or an error with status 401, 404 or 500.
C8_NeverThrows ==
    AuthCall =>
        /\ ~last.out.threw
        /\ FaultRaised => IsError(last.out, "Authentication failed", 500)
        /\ \/ HasUser(last.out) /\ DOMAIN last.out.value = {"user"}
           \/ /\ HasError(last.out)
              /\ DOMAIN last.out.value = {"error", "status"}
              /\ last.out.value.status \in {401, 404, 500}

\* The store fails after the token was verified, and the token has expired since.
C8_Witness ==
    /\ AuthCall /\ last.at = "select" /\ last.fault = "db" /\ UserExists(last.token)
    /\ Rejected(last.token)
    /\ IsError(last.out, "Authentication failed", 500)

\* A call made with the token of the pinned call passed verifyToken.
SecondCall ==
    /\ AuthCall /\ pinned.set
    /\ last.token = pinned.token /\ last.at = "select"

\* A step of a direct call of authenticateRequest: the call is answered, or it goes on
\* to its next await.
AuthStep ==
    \/ last'.op = "authenticateRequest"
    \/ \E call \in BagToSet(calls') \ {Free} :
          /\ call.op = "authenticateRequest"
          /\ CopiesIn(call, calls') > CopiesIn(call, calls)

\* C9: a call with the token of an earlier successful call, the token still being
\* accepted, returns the same user identity, whatever was handled in between (the call
\* raising no fault); and no step of a call of authenticateRequest changes the cookie
\* (the token in it) or the user store.
C9_Idempotent ==
    /\ [](SecondCall /\ last.fault # "db"
            => HasUser(last.out) /\ last.out.value.user.id = pinned.id)
    /\ [][AuthStep => cookie' = cookie /\ users' = users]_vars

\* The second call returns at a later time than the pinned one did, while a guard
\* request is in flight.
C9_Witness ==
    /\ SecondCall /\ HasUser(last.out) /\ last.out.value.user.id = pinned.id
    /\ pinned.id = "u2" /\ now > pinned.time
    /\ \E call \in InFlight : call.op = "middleware"

-----------------------------------------------------------------------------
(* Permission Evaluator *)

PermissionCall == last.op = "hasPermission"

KnownRoles == {"admin", "hr", "employee"}

\* C10: hasPermission returns true exactly when the ROLE_PERMISSIONS entry of the
\* user's role holds the (resource, action) pair; for a role string other than admin,
\* hr and employee it returns false for every pair and raises no error.
C10_FailClosed ==
    PermissionCall =>
        /\ ~last.out.threw
        /\ last.out.value <=>
              /\ last.role \in KnownRoles
              /\ Permission(last.resource, last.action) \in ROLE_PERMISSIONS[last.role]

\* C11: requirePermission(resource, action)(user) returns {} exactly when
\* hasPermission(user, resource, action) is true and requireRole(roles)(user) returns {}
\* exactly when user.role is in roles; in every other case each returns exactly {error:
\* 'Insufficient permissions', status: 403}.  requireAdmin accepts admin only, requireHR
\* hr and admin only, requireEmployee the three roles and no other.
C11_TwoShapes ==
    /\ last.op \in {"requirePermission", "requireRole"} \cup NamedGuards =>
          /\ ~last.out.threw
          /\ last.out.value \in {EmptyObject, InsufficientPermissions}
    /\ last.op = "requirePermission" =>
          (last.out.value = EmptyObject <=>
              hasPermission(AuthenticatedUser("u1", last.role), last.resource,
                            last.action) = Returned(TRUE))
    /\ last.op = "requireRole" =>
          (last.out.value = EmptyObject <=> last.role \in last.allowedRoles)
    /\ last.op = "requireAdmin" =>
          (last.out.value = EmptyObject <=> last.role = "admin")
    /\ last.op = "requireHR" =>
          (last.out.value = EmptyObject <=> last.role \in {"hr", "admin"})
    /\ last.op = "requireEmployee" =>
          (last.out.value = EmptyObject <=> last.role \in KnownRoles)

-----------------------------------------------------------------------------
(* Attendance handlers *)

Handlers == {"GET", "POST", "PUT"}

\* The caller as authenticateRequest returned it to the handler observed in l.
Authenticated(l) == ~l.out.auth.threw /\ ~authFailed(l.out.auth.value)
Caller(l) == l.out.auth.value.user

\* The caller's role holds the permission in the table.
Holds(user, resource, action) ==
    /\ user.role \in KnownRoles
    /\ Permission(resource, action) \in ROLE_PERMISSIONS[user.role]

NamesAnother(l) == ParamTruthy(l.userId) /\ l.userId # Caller(l).id

\* The permission check of the handler observed in l did not succeed: it answered no,
\* or it raised.
CheckRaised(l) ==
    CASE l.op = "GET" ->
            \/ canViewAllAttendance(Caller(l)).threw
            \/ canViewOwnAttendance(Caller(l)).threw
      [] l.op = "POST" -> requirePermission("attendance", "check_in", Caller(l)).threw
      [] l.op = "PUT" -> requirePermission("attendance", "edit", Caller(l)).threw

CheckFailed(l) ==
    CASE l.op = "GET" ->
            /\ canViewAllAttendance(Caller(l)) = Returned(FALSE)
            /\ \/ canViewOwnAttendance(Caller(l)) = Returned(FALSE)
               \/ canViewOwnAttendance(Caller(l)) = Returned(TRUE) /\ NamesAnother(l)
      [] l.op = "POST" ->
            requirePermission("attendance", "check_in", Caller(l))
                = Returned(InsufficientPermissions)
      [] l.op = "PUT" ->
            requirePermission("attendance", "edit", Caller(l))
                = Returned(InsufficientPermissions)

Denied(l) ==
    /\ l.op \in Handlers
    /\ \/ ~Authenticated(l)
       \/ CheckRaised(l)
       \/ CheckFailed(l)

NoStoreAccess(out) == out.steps = <<"authenticateRequest">> /\ out.query = NoQuery

\* The positions of a handler from its permission test on.
PastTheCheck == {"body", "select", "insert", "update"}

\* What the handler holds for auth is what authenticateRequest returns when called on
\* the request's own token, at some time up to the present.
OwnAuth(token, auth) ==
    \E clock \in 0..now, fault \in Faults :
        auth = authenticateRequest(token, clock, users, fault)

\* The request in flight was given a user by authenticateRequest, called on the
\* request's own token, and that user holds the permission its handler asks for.
Cleared(call) ==
    /\ OwnAuth(call.token, call.auth)
    /\ ~authFailed(call.auth.value)
    /\ LET user == call.auth.value.user IN
       CASE call.op = "GET" ->
               \/ Holds(user, "attendance", "view_all")
               \/ /\ Holds(user, "attendance", "view_own")
                  /\ call.effectiveUserId = user.id
                  /\ ~(ParamTruthy(call.userId) /\ call.userId # user.id)
         [] call.op = "POST" -> Holds(user, "attendance", "check_in")
         [] call.op = "PUT" -> Holds(user, "attendance", "edit")

\* C12: in GET, POST and PUT authenticateRequest is called on the request's own cookie
\* before any access to the attendance table, whatever the guard decided and whatever
\* other requests do meanwhile; when it returns an error, or the handler's permission
\* check fails, no attendance record is read, inserted or updated by the request and the
\* answer carries the failure's status: the status of the authentication error, 403 for
\* a refused permission (500 when the check raises).
C12_DefenseInDepth ==
    /\ [](/\ \A call \in InFlight :
                /\ call.pc = "auth" => OwnAuth(call.token, call.auth)
                /\ call.pc \in PastTheCheck => Cleared(call)
          /\ last.op \in Handlers =>
                /\ ~last.out.threw
                /\ last.out.steps[1] = "authenticateRequest"
                /\ \A i \in 2..Len(last.out.steps) :
                      last.out.steps[i] \in {"select", "insert", "update"}
                /\ OwnAuth(last.token, last.out.auth)
                /\ Denied(last) =>
                      /\ NoStoreAccess(last.out)
                      /\ last.out.res.status \in {401, 403, 404, 500}
                      /\ last.out.res.status =
                            IF ~Authenticated(last) THEN last.out.auth.value.status
                            ELSE IF CheckRaised(last) THEN 500
                            ELSE 403)
    /\ [][Denied(last') => attendance' = attendance]_vars

\* An employee whose token claims the admin role asks to update a record while a
\* check-in that passed its permission test is waiting to be inserted.
C12_Witness ==
    /\ last.op = "PUT" /\ Authenticated(last) /\ CheckFailed(last)
    /\ last.token.role = "admin" /\ Caller(last).role = "employee"
    /\ last.out.res = Forbidden
    /\ \E call \in InFlight : call.pc = "insert"

\* C13: an authenticated caller of GET without (attendance, view_all) but with
\* (attendance, view_own) gets 403 'Insufficient permissions' when userId names another
\* user and otherwise a query filtered by the caller's own id; a caller with neither
\* permission always gets 403; only a caller with view_all gets an unfiltered query or a
\* filter on another user's id.
C13_OwnRecordsOnly ==
    (last.op = "GET" /\ Authenticated(last)) =>
        LET user == Caller(last)
            viewAll == Holds(user, "attendance", "view_all")
            viewOwn == Holds(user, "attendance", "view_own")
            query == last.out.query
        IN
        /\ (~viewAll /\ viewOwn /\ NamesAnother(last)) => last.out.res = Forbidden
        /\ (~viewAll /\ viewOwn /\ ~NamesAnother(last) /\ query.made)
              => query.byUser /\ query.userId = user.id
        /\ (~viewAll /\ ~viewOwn) => last.out.res = Forbidden
        /\ (query.made /\ (~query.byUser \/ query.userId # user.id)) => viewAll

\* The part of C13 about disclosure: without view_all no query is made that is not
\* filtered by the caller's own id, and no record of another user is returned, also
\* when records are inserted while the request is in flight.
C13_NoDisclosure ==
    (last.op = "GET" /\ Authenticated(last)
        /\ ~Holds(Caller(last), "attendance", "view_all")) =>
        /\ last.out.query.made =>
              /\ last.out.query.byUser
              /\ last.out.query.userId = Caller(last).id
        /\ last.out.res.status = 200 =>
              \A row \in last.out.res.body.records : row.user_id = Caller(last).id
        /\ NamesAnother(last) => last.out.res.status \in {403, 500}

\* C14: for an authenticated caller of PUT the check requirePermission('attendance',
\* 'edit') succeeds when the role is hr or admin and fails with 403 'Insufficient
\* permissions' when the role is employee.
C14_EditForHRAndAdmin ==
    (last.op = "PUT" /\ Authenticated(last)) =>
        /\ Caller(last).role \in {"hr", "admin"} =>
              /\ last.out.res # Forbidden
              /\ (last.body # NoBody /\ last.body.valid /\ last.body.id # 0)
                    => last.out.steps = <<"authenticateRequest", "update">>
        /\ Caller(last).role = "employee" =>
              /\ last.out.res = Forbidden
              /\ NoStoreAccess(last.out)

====
